---- MODULE Spec2Model ----
(***************************************************************************)
(* Model of the async MaxMind DB reader (src/src/maxminddb/lib.rs and      *)
(* source.rs).                                                             *)
(*                                                                         *)
(* Part 1 models the metadata locator find_metadata_start, called for a    *)
(* series of chunk sizes on one file as tests::test_reading_metadata does. *)
(* Part 2 models Reader::lookup_prefix, Part 3 lookups that run            *)
(* concurrently, one await per step, Part 4 single calls of read_node and  *)
(* Part 5 the operations of Source.                                        *)
(***************************************************************************)
EXTENDS Integers, Sequences, FiniteSets, TLC

\* ------------------------------------------------------------------------
\* Bounds
\* ------------------------------------------------------------------------
\* longest file handed to the metadata locator
MaxFileLen == 30
\* largest chunk size requested from the metadata locator
MaxChunk == 16
\* largest node_count of a database
MaxNodes == 1
\* largest number of records of a search tree that are not "no data"
MaxSetRecords == 2
\* number of lookups that run at the same time on one Reader
NumLookups == 2
\* largest node_count of a tree whose nodes are read one by one
MaxTreeNodes == 3
\* longest file behind a Source whose operations are called one by one; the
\* offsets and sizes of the calls go one past it
MaxSourceLen == 2
\* node_count in the metadata of a file that was cut after its first node
ClaimedNodes == 16

\* ------------------------------------------------------------------------
\* State
\* ------------------------------------------------------------------------
\* the metadata locator (Part 1)
VARIABLES
    file,        \* the bytes of the file behind the Source
    done,        \* chunk sizes find_metadata_start was already called with
    outcome,     \* outcome[c]: what the call with chunk size c returned
    requested,   \* chunk_size argument of the running call
    chunk_size,  \* the shadowed chunk_size local (line 308)
    iter,        \* local iter
    last_buf,    \* local last_buf
    pc           \* "idle" between calls, "loop" inside the loop of a call

\* the Reader and its lookups (Part 2)
VARIABLES
    db,          \* the database file on disk (immutable)
    build,       \* "debug" (overflow checks abort) or "release" (usize wraps)
    reader,      \* the Reader: metadata, ipv4_start, pointer_base
    address,     \* the octets of the address of the running or last lookup
    walked,      \* what find_address_in_tree returned to the last lookup
    result,      \* what the last lookup returned
    previous,    \* the kind of result of the lookup before that one
    lpc          \* "idle", or "called" while lookup_prefix runs

\* lookups that run concurrently (Part 3)
VARIABLES
    tasks,       \* tasks[l]: the locals of lookup l and the await it is at
    sources,     \* sources[h]: the cursor of the stream of Source h
    overlapped   \* a lookup took a step while another was under way

\* single calls of read_node and of the operations of a Source (Part 4)
VARIABLES
    probe,       \* the last call of read_node: its arguments and its result
    source,      \* a Source: its buffer and the cursor of its stream
    ret,         \* the last call on the Source and what it returned
    seen         \* the last read_at call before the call of ret, and its return

lvars == <<file, done, outcome, requested, chunk_size, iter, last_buf, pc>>
svars == <<db, build, reader, address, walked, result, previous, lpc>>
cvars == <<tasks, sources, overlapped>>
xvars == <<probe, source, ret, seen>>
vars == <<lvars, svars, cvars, xvars>>

\* ------------------------------------------------------------------------
\* Results
\* ------------------------------------------------------------------------
\* Result<usize, MaxMindDBError> of the locator, plus the abort of the task
\* ("Panic") that an arithmetic overflow or an out-of-range slice causes.
Ok(n) == [kind |-> "Ok", val |-> n, msg |-> ""]
Err(k, m) == [kind |-> k, val |-> 0, msg |-> m]
Panic(m) == [kind |-> "Panic", val |-> 0, msg |-> m]

\* Option<usize> of the helpers; "Panic" when the helper aborts.
Some(n) == [kind |-> "Some", val |-> n, msg |-> ""]
None == [kind |-> "None", val |-> 0, msg |-> ""]

NotFoundMsg == "Could not find MaxMind DB metadata in file."

\* ------------------------------------------------------------------------
\* Part 1: the metadata locator
\* ------------------------------------------------------------------------
\* b"\xab\xcd\xefMaxMind.com"
METADATA_START_MARKER == <<171, 205, 239, 77, 97, 120, 77, 105, 110, 100, 46, 99, 111, 109>>
MARKER_LEN == Len(METADATA_START_MARKER)

Max(a, b) == IF a >= b THEN a ELSE b

\* memchr::memmem::rfind(buf, METADATA_START_MARKER): index of the rightmost
\* occurrence, -1 for Option::None.
MatchesAt(buf, idx) ==
    /\ idx + MARKER_LEN <= Len(buf)
    /\ \A k \in 1..MARKER_LEN : buf[idx + k] = METADATA_START_MARKER[k]

Occurrences(buf) == {idx \in 0..(Len(buf) - MARKER_LEN) : MatchesAt(buf, idx)}

rfind(buf) ==
    IF Occurrences(buf) = {} THEN -1
    ELSE CHOOSE idx \in Occurrences(buf) : \A o \in Occurrences(buf) : o <= idx

check_in_buf(buf) ==
    IF rfind(buf) = -1 THEN None ELSE Some(rfind(buf) + MARKER_LEN)

\* current_buf.len() - MARKER_LEN is a usize subtraction: with a current_buf
\* shorter than the marker it overflows (debug build) or wraps and makes the
\* slice start lie past the end (release build); both abort the task.
check_between(last, current) ==
    IF last = <<>> THEN None
    ELSE IF Len(current) < MARKER_LEN THEN Panic("check_between")
    ELSE check_in_buf(SubSeq(current, Len(current) - MARKER_LEN + 1, Len(current))
                      \o SubSeq(last, 1, MARKER_LEN))

try_find_metadata(start, size, current, last) ==
    IF check_in_buf(current).kind = "Some"
    THEN Some(start + check_in_buf(current).val)
    ELSE LET b == check_between(last, current) IN
         IF b.kind = "Some" THEN Some(start + (size - MARKER_LEN) + b.val)
         ELSE b

\* find_meta_by_loading_whole_file: the reference that reads the whole file.
find_meta_by_loading_whole_file(f) ==
    IF rfind(f) = -1 THEN Err("InvalidDatabaseError", NotFoundMsg)
    ELSE Ok(rfind(f) + MARKER_LEN)

\* The files: filler bytes (0) with up to two copies of the marker written
\* at positions from -(MARKER_LEN-1) to len-1; a copy may be cut by either
\* end of the file or overwritten in part by the copy after it, so partial
\* markers occur along with zero, one and two whole ones.
Positions(len) == (1 - MARKER_LEN)..(len - 1)

Covering(P, i) == {p \in P : p < i /\ i <= p + MARKER_LEN}

FileOf(len, P) ==
    [i \in 1..len |->
        IF Covering(P, i) = {} THEN 0
        ELSE LET p == CHOOSE q \in Covering(P, i) : \A r \in Covering(P, i) : r <= q
             IN METADATA_START_MARKER[i - p]]

Placements(len) == {{}} \cup {{p, q} : <<p, q>> \in Positions(len) \X Positions(len)}

Files == UNION {{FileOf(len, P) : P \in Placements(len)} : len \in 0..MaxFileLen}

\* the chunk sizes the caller asks for, in the order of the test's loop
RequestedSizes == (MARKER_LEN - 1)..MaxChunk

NoOutcome == [kind |-> "NotCalled", val |-> 0, msg |-> ""]

LocInit ==
    /\ file \in Files
    /\ done = {}
    /\ outcome = [c \in RequestedSizes |-> NoOutcome]
    /\ requested = 0
    /\ chunk_size = 0
    /\ iter = 0
    /\ last_buf = <<>>
    /\ pc = "idle"
    \* no Reader is open and no lookup runs
    /\ db = <<>>
    /\ build = "release"
    /\ reader = <<>>
    /\ address = <<>>
    /\ walked = <<>>
    /\ result = <<>>
    /\ previous = ""
    /\ lpc = "idle"
    /\ tasks = <<>>
    /\ sources = <<>>
    /\ overlapped = FALSE
    /\ probe = <<>>
    /\ source = <<>>
    /\ ret = <<>>
    /\ seen = <<>>

\* lines 305-308: the call and the initialisation of the locals
Call(c) ==
    /\ pc = "idle"
    /\ c \notin done
    /\ \A d \in RequestedSizes : d < c => d \in done
    /\ requested' = c
    /\ chunk_size' = Max(c, MARKER_LEN)
    /\ iter' = Len(file)
    /\ last_buf' = <<>>
    /\ pc' = "loop"
    /\ UNCHANGED <<file, done, outcome>>
    /\ UNCHANGED <<svars, cvars, xvars>>

Return(r) ==
    /\ outcome' = [outcome EXCEPT ![requested] = r]
    /\ done' = done \cup {requested}
    /\ pc' = "idle"
    /\ UNCHANGED <<file, requested, chunk_size, iter, last_buf>>
    /\ UNCHANGED <<svars, cvars, xvars>>

\* lines 311-318: one whole chunk [start, iter) is read and searched
FullChunk ==
    /\ pc = "loop"
    /\ iter >= chunk_size
    /\ LET start == iter - chunk_size
           current_buf == SubSeq(file, start + 1, start + chunk_size)
           found == try_find_metadata(start, chunk_size, current_buf, last_buf)
       IN  IF found.kind = "Some" THEN Return(Ok(found.val))
           ELSE IF found.kind = "Panic" THEN Return(Panic(found.msg))
           ELSE /\ last_buf' = SubSeq(current_buf, 1, MARKER_LEN)
                /\ iter' = iter - chunk_size
                /\ UNCHANGED <<file, done, outcome, requested, chunk_size, pc>>
                /\ UNCHANGED <<svars, cvars, xvars>>

\* lines 319-327: fewer than chunk_size bytes are left. iter - 1 is a usize
\* subtraction: with iter = 0 it overflows (debug build) or wraps to
\* usize::MAX, which Source::read cannot allocate (release build).
to_read_of(it, total) == IF it = total THEN it ELSE it - 1

LastRegion ==
    /\ pc = "loop"
    /\ iter < chunk_size
    /\ LET to_read == to_read_of(iter, Len(file)) IN
       IF to_read < 0 THEN Return(Panic("iter - 1"))
       ELSE LET current_buf == SubSeq(file, 1, to_read)
                found == try_find_metadata(0, to_read, current_buf, last_buf)
            IN  IF found.kind = "Some" THEN Return(Ok(found.val))
                ELSE IF found.kind = "Panic" THEN Return(Panic(found.msg))
                ELSE Return(Err("InvalidDatabaseError", NotFoundMsg))

LocNext ==
    \/ \E c \in RequestedSizes : Call(c)
    \/ FullChunk
    \/ LastRegion

SpecLocator == LocInit /\ [][LocNext]_vars

\* ------------------------------------------------------------------------
\* Claims about the metadata locator
\* ------------------------------------------------------------------------
HasMarker(f) == rfind(f) # -1

\* the calls the claims speak of: chunk sizes of at least the marker length
Settled == {c \in done : c >= MARKER_LEN}

\* C1: on a file that contains the marker, the calls with any two chunk
\* sizes c >= 14 return the same offset.
C1_ChunkSizeIndependent ==
    HasMarker(file) =>
        \A c1 \in Settled : \A c2 \in Settled :
            /\ outcome[c1].kind = "Ok"
            /\ outcome[c1] = outcome[c2]

\* C2: on a file that contains the marker, every call that returns gives the
\* offset just past the last (rightmost) occurrence, which is what
\* find_meta_by_loading_whole_file gives.
C2_LastOccurrence ==
    HasMarker(file) =>
        \A c \in Settled :
            outcome[c].kind # "Panic" =>
                outcome[c] = find_meta_by_loading_whole_file(file)

\* C3: on a file without the marker, every call ends with
\* InvalidDatabaseError("Could not find MaxMind DB metadata in file.") and
\* none aborts.
C3_NoMarkerIsAnError ==
    ~HasMarker(file) =>
        \A c \in Settled :
            outcome[c] = Err("InvalidDatabaseError", NotFoundMsg)

\* the offsets where two successively scanned regions of a file of n bytes
\* meet when the chunk size is cs: n - cs, n - 2 * cs, ... above 0; the
\* lowest is where the last whole chunk meets the final region [0, iter)
Boundaries(n, cs) == {b \in 1..(n - 1) : (n - b) % cs = 0}

\* the only occurrence of the marker in f lies across the offset b
SplitAt(f, b) ==
    /\ Cardinality(Occurrences(f)) = 1
    /\ rfind(f) < b
    /\ b < rfind(f) + MARKER_LEN

\* C13: when the only occurrence of the marker lies across a boundary
\* between two successively scanned regions, the boundary of the final
\* region included, find_metadata_start returns the offset just past it.
C13_SplitMarkerFound ==
    \A c \in Settled :
        (\E b \in Boundaries(Len(file), Max(c, MARKER_LEN)) : SplitAt(file, b))
            => outcome[c] = Ok(rfind(file) + MARKER_LEN)

\* ------------------------------------------------------------------------
\* Part 2: Reader and lookup
\* ------------------------------------------------------------------------
\* Result<(T, usize), MaxMindDBError> of a lookup. val is the decoded record
\* (named by the file offset it starts at), prefix the prefix_len returned
\* with it; "Panic" is the abort of the task.
LOk(v, p) == [kind |-> "Ok", val |-> v, prefix |-> p, msg |-> ""]
LErr(k, m) == [kind |-> k, val |-> 0, prefix |-> 0, msg |-> m]
NoResult == [kind |-> "NotCalled", val |-> 0, prefix |-> 0, msg |-> ""]

\* --- Source -------------------------------------------------------------
\* db.tree holds the bytes of the search tree; the 16 zero bytes of the
\* separator, the data section, the marker and the metadata map follow.
ByteAt(f, off) == IF off < Len(f.tree) THEN f.tree[off + 1] ELSE 0

\* Source::read: read_exact of size bytes at the cursor. The bytes are
\* file[pos, pos + size), kept as the window of the file they came from.
Window(from, len) == [kind |-> "Ok", from |-> from, len |-> len, msg |-> ""]
WErr(k, m) == [kind |-> k, from |-> 0, len |-> 0, msg |-> m]

read(f, pos, size) ==
    IF pos + size > f.total_size
    THEN WErr("IoError", "failed to fill whole buffer")
    ELSE Window(pos, size)

\* Source::read_at: move_cursor(start), then read(size)
read_at(f, start, size) == read(f, start, size)

WindowBytes(f, w) == [k \in 1..w.len |-> ByteAt(f, w.from + k - 1)]

\* to_usize: big-endian fold of the bytes onto base
RECURSIVE to_usize(_, _)
to_usize(base, bytes) ==
    IF bytes = <<>> THEN base
    ELSE to_usize(base * 256 + Head(bytes), Tail(bytes))

\* --- Reader::read_node --------------------------------------------------
NOk(n) == [kind |-> "Ok", val |-> n, msg |-> ""]
NErr(k, m) == [kind |-> k, val |-> 0, msg |-> m]

\* (a nibble that is the low one for both sides)
middle_of_low(byte, index) == byte % 16

\* the nibble of the middle byte of a 28-bit node that belongs to a side
middle_of(byte, index) == IF index # 0 THEN byte % 16 ELSE byte \div 16

read_node(rd, f, node_number, index) ==
    LET rs == rd.metadata.record_size
        base_offset == (node_number * rs) \div 4
    IN  CASE rs = 24 ->
             LET w == read_at(f, base_offset + index * 3, 3) IN
             IF w.kind # "Ok" THEN NErr(w.kind, w.msg)
             ELSE NOk(to_usize(0, WindowBytes(f, w)))
          [] rs = 28 ->
             LET m == read_at(f, base_offset + 3, 1) IN
             IF m.kind # "Ok" THEN NErr(m.kind, m.msg)
             ELSE LET w == read_at(f, base_offset + index * 4, 3) IN
                  IF w.kind # "Ok" THEN NErr(w.kind, w.msg)
                  ELSE NOk(to_usize(middle_of(WindowBytes(f, m)[1], index),
                                    WindowBytes(f, w)))
          [] rs = 32 ->
             LET w == read_at(f, base_offset + index * 4, 4) IN
             IF w.kind # "Ok" THEN NErr(w.kind, w.msg)
             ELSE NOk(to_usize(0, WindowBytes(f, w)))
          [] OTHER -> NErr("InvalidDatabaseError", "unknown record size")

\* --- Reader::find_address_in_tree ---------------------------------------
\* (a walk that takes the bits of an octet from the least significant end)
bit_of_lsb_first(ip_address, i) == (ip_address[(i \div 8) + 1] \div (2 ^ (i % 8))) % 2

\* 1 & (ip_address[i >> 3] >> (7 - (i % 8)))
bit_of(ip_address, i) == (ip_address[(i \div 8) + 1] \div (2 ^ (7 - (i % 8)))) % 2

start_node(rd, length) == IF length = 128 THEN 0 ELSE rd.ipv4_start

\* (a walk that reports the depth in the IPv6 tree for an IPv4 address)
prefix_len_at_tree_depth(i, bit_count) == IF bit_count = 32 THEN i + 96 ELSE i

\* prefix_len when the loop breaks at bit i
prefix_len_at(i, bit_count) == i

\* the state of the loop of lines 195-203: kind is "Loop" while the loop
\* runs, "Ok" once it broke, an error kind once read_node failed
Walk(kind, node, prefix_len, msg) ==
    [kind |-> kind, node |-> node, prefix_len |-> prefix_len, msg |-> msg]

\* (an iteration that stops only on node > node_count and reads on at
\* node == node_count)
tree_step_past_miss(rd, f, ip_address, st, i) ==
    IF st.kind # "Loop" THEN st
    ELSE IF st.node > rd.metadata.node_count
    THEN Walk("Ok", st.node, prefix_len_at(i, Len(ip_address) * 8), "")
    ELSE LET r == read_node(rd, f, st.node, bit_of(ip_address, i)) IN
         IF r.kind # "Ok" THEN Walk(r.kind, 0, 0, r.msg)
         ELSE Walk("Loop", r.val, st.prefix_len, "")

\* one iteration, for bit i
tree_step(rd, f, ip_address, st, i) ==
    IF st.kind # "Loop" THEN st
    ELSE IF st.node >= rd.metadata.node_count
    THEN Walk("Ok", st.node, prefix_len_at(i, Len(ip_address) * 8), "")
    ELSE LET r == read_node(rd, f, st.node, bit_of(ip_address, i)) IN
         IF r.kind # "Ok" THEN Walk(r.kind, 0, 0, r.msg)
         ELSE Walk("Loop", r.val, st.prefix_len, "")

\* the iterations for the bits lo .. hi-1, in order
RECURSIVE tree_steps(_, _, _, _, _, _)
tree_steps(rd, f, ip_address, st, lo, hi) ==
    IF lo >= hi \/ st.kind # "Loop" THEN st
    ELSE IF hi = lo + 1 THEN tree_step(rd, f, ip_address, st, lo)
    ELSE LET mid == (lo + hi) \div 2
             half == tree_steps(rd, f, ip_address, st, lo, mid)
         IN  tree_steps(rd, f, ip_address, half, mid, hi)

\* for i in 0..bit_count; prefix_len starts as bit_count (line 193)
tree_loop(rd, f, ip_address, node) ==
    LET bit_count == Len(ip_address) * 8
        st == tree_steps(rd, f, ip_address, Walk("Loop", node, bit_count, ""),
                         0, bit_count)
    IN  IF st.kind = "Loop" THEN Walk("Ok", st.node, st.prefix_len, "") ELSE st

\* Result<(usize, usize), MaxMindDBError>: (pointer, prefix_len)
TOk(ptr, p) == [kind |-> "Ok", pointer |-> ptr, prefix_len |-> p, msg |-> ""]
TErr(k, m) == [kind |-> k, pointer |-> 0, prefix_len |-> 0, msg |-> m]

\* (a classification that tests node > node_count with >=, before the miss)
find_address_in_tree_no_miss(rd, f, ip_address) ==
    LET bit_count == Len(ip_address) * 8
        w == tree_loop(rd, f, ip_address, start_node(rd, bit_count))
        node_count == rd.metadata.node_count
    IN  IF w.kind # "Ok" THEN TErr(w.kind, w.msg)
        ELSE IF w.node >= node_count THEN TOk(w.node, w.prefix_len)
        ELSE TErr("InvalidDatabaseError", "invalid node in search tree")

find_address_in_tree(rd, f, ip_address) ==
    LET bit_count == Len(ip_address) * 8
        w == tree_loop(rd, f, ip_address, start_node(rd, bit_count))
        node_count == rd.metadata.node_count
    IN  IF w.kind # "Ok" THEN TErr(w.kind, w.msg)
        ELSE IF node_count = w.node THEN TOk(0, w.prefix_len)
        ELSE IF w.node > node_count THEN TOk(w.node, w.prefix_len)
        ELSE TErr("InvalidDatabaseError", "invalid node in search tree")

\* --- Reader::find_ipv4_start --------------------------------------------
\* the state of the loop of lines 229-234, as for the tree walk
ipv4_step(rd, f, st) ==
    IF st.kind # "Loop" THEN st
    ELSE IF st.node >= rd.metadata.node_count THEN Walk("Ok", st.node, 0, "")
    ELSE LET r == read_node(rd, f, st.node, 0) IN
         IF r.kind # "Ok" THEN Walk(r.kind, 0, 0, r.msg)
         ELSE Walk("Loop", r.val, 0, "")

\* count iterations
RECURSIVE ipv4_steps(_, _, _, _)
ipv4_steps(rd, f, st, count) ==
    IF count <= 0 \/ st.kind # "Loop" THEN st
    ELSE IF count = 1 THEN ipv4_step(rd, f, st)
    ELSE LET half == ipv4_steps(rd, f, st, count \div 2)
         IN  ipv4_steps(rd, f, half, count - (count \div 2))

ipv4_loop(rd, f) ==
    LET st == ipv4_steps(rd, f, Walk("Loop", 0, 0, ""), 96) IN
    IF st.kind \in {"Loop", "Ok"} THEN NOk(st.node) ELSE NErr(st.kind, st.msg)

\* (a start of the IPv4 subtree that is the root for every database)
find_ipv4_start_root(rd, f) == NOk(0)

find_ipv4_start(rd, f) ==
    IF rd.metadata.ip_version # 6 THEN NOk(0) ELSE ipv4_loop(rd, f)

\* --- Reader::resolve_data_pointer ---------------------------------------
\* pointer - node_count - 16 is a usize subtraction. With pointer below
\* node_count + 16 a debug build aborts on the overflow; a release build
\* wraps to a value near 2^64, which is above every total_size.
resolve_data_pointer(rd, bld, pointer, total_size) ==
    IF pointer < rd.metadata.node_count + 16
    THEN IF bld = "debug" THEN NErr("Panic", "attempt to subtract with overflow")
         ELSE NErr("InvalidDatabaseError", "the MaxMind DB file's search tree is corrupt")
    ELSE LET resolved == pointer - rd.metadata.node_count - 16 IN
         IF resolved > total_size
         THEN NErr("InvalidDatabaseError", "the MaxMind DB file's search tree is corrupt")
         ELSE NOk(resolved)

\* --- decoder::Decoder ---------------------------------------------------
\* The values of the data section: where each starts (offset in the data
\* section), how many bytes its encoding takes, and whether the encoding is
\* structurally broken (a double of size 2).
DataRecords ==
    { [off |-> 0,  need |-> 10,   broken |-> FALSE],
      [off |-> 10, need |-> 10,   broken |-> TRUE],
      [off |-> 20, need |-> 1500, broken |-> FALSE] }

\* Decoder::new(buf, rec) and T::deserialize: decode the value that starts at
\* offset rec of buf. buf is the window w of the file.
decode(f, w, rec) ==
    LET at == w.from + rec
        here == {r \in DataRecords : f.data_start + r.off = at}
    IN  IF rec >= w.len
        THEN NErr("InvalidDatabaseError", "unexpected EOF in data section")
        ELSE IF here = {}
        THEN NErr("InvalidDatabaseError", "unknown type")
        ELSE LET r == CHOOSE x \in here : TRUE IN
             IF rec + r.need > w.len
             THEN NErr("InvalidDatabaseError", "unexpected EOF in data section")
             ELSE IF r.broken
             THEN NErr("InvalidDatabaseError", "double of size 2")
             ELSE NOk(at)

\* --- try_decode_increasing_buffer ---------------------------------------
BASE == 1024

\* the closure handed over by lookup_prefix (lines 180-183): the decoder's
\* Result turned into an Option by .ok()
decode_closure(f, w, rec) ==
    IF decode(f, w, rec).kind = "Ok" THEN Some(decode(f, w, rec).val) ELSE None

\* the for loop of lines 367-377 from size_mult on
RECURSIVE decode_loop(_, _, _, _, _)
decode_loop(f, start_position, rec, max_size, size_mult) ==
    IF rec + size_mult * BASE > max_size
    THEN LET buf == read(f, start_position, max_size) IN
         IF buf.kind # "Ok" THEN NErr(buf.kind, buf.msg)
         ELSE decode_closure(f, buf, rec)
    ELSE LET buf == read(f, start_position, rec + size_mult * BASE) IN
         IF buf.kind # "Ok" THEN NErr(buf.kind, buf.msg)
         ELSE IF decode_closure(f, buf, rec).kind = "Some"
         THEN decode_closure(f, buf, rec)
         ELSE decode_loop(f, start_position, rec, max_size, size_mult + 1)

\* total_size - start_position is a usize subtraction: a cursor past the end
\* of the file aborts a debug build; in a release build max_size wraps to a
\* value no request exceeds and the first read fails at the end of the file.
try_decode_increasing_buffer(f, bld, start_position, rec) ==
    IF start_position > f.total_size
    THEN IF bld = "debug" THEN NErr("Panic", "attempt to subtract with overflow")
         ELSE NErr("IoError", "failed to fill whole buffer")
    ELSE decode_loop(f, start_position, rec, f.total_size - start_position, 1)

\* --- Reader::lookup_prefix ----------------------------------------------
\* (a decoding that seeks to the record and still hands rec to the decoder)
decode_record_at_record(rd, f, bld, pointer, prefix_len) ==
    LET rec == resolve_data_pointer(rd, bld, pointer, f.total_size) IN
    IF rec.kind # "Ok" THEN LErr(rec.kind, rec.msg)
    ELSE LET d == try_decode_increasing_buffer(f, bld, rd.pointer_base + rec.val,
                                               rec.val) IN
         IF d.kind = "Some" THEN LOk(d.val, prefix_len)
         ELSE IF d.kind = "None" THEN LErr("DecodingError", "Error decoding T")
         ELSE LErr(d.kind, d.msg)

\* the lines 176-185, after the tree walk returned pointer and prefix_len
decode_record(rd, f, bld, pointer, prefix_len) ==
    LET rec == resolve_data_pointer(rd, bld, pointer, f.total_size) IN
    IF rec.kind # "Ok" THEN LErr(rec.kind, rec.msg)
    ELSE LET d == try_decode_increasing_buffer(f, bld, rd.pointer_base, rec.val) IN
         IF d.kind = "Some" THEN LOk(d.val, prefix_len)
         ELSE IF d.kind = "None" THEN LErr("DecodingError", "Error decoding T")
         ELSE LErr(d.kind, d.msg)

\* (a lookup that refuses an IPv6 address on an IPv4 database)
lookup_prefix_checked(rd, f, bld, ip_bytes) ==
    LET t == find_address_in_tree(rd, f, ip_bytes) IN
    IF Len(ip_bytes) = 16 /\ rd.metadata.ip_version = 4
    THEN LErr("InvalidNetworkError", "IPv6 query against IPv4 database")
    ELSE IF t.kind # "Ok" THEN LErr(t.kind, t.msg)
    ELSE IF t.pointer = 0
    THEN LErr("AddressNotFoundError", "Address not found in database")
    ELSE decode_record(rd, f, bld, t.pointer, t.prefix_len)

lookup_prefix(rd, f, bld, ip_bytes) ==
    LET t == find_address_in_tree(rd, f, ip_bytes) IN
    IF t.kind # "Ok" THEN LErr(t.kind, t.msg)
    ELSE IF t.pointer = 0
    THEN LErr("AddressNotFoundError", "Address not found in database")
    ELSE decode_record(rd, f, bld, t.pointer, t.prefix_len)

\* (a lookup whose failure marks the Reader: no IPv4 subtree any more)
reader_after_poisoned(rd, res) ==
    IF res.kind = "Ok" THEN rd
    ELSE [rd EXCEPT !.ipv4_start = rd.metadata.node_count]

\* lookup_prefix borrows the Reader as &self: the Reader a lookup that
\* returned res leaves behind is the Reader it found
reader_after(rd, res) == rd

\* --- Reader::from_source ------------------------------------------------
data_section_separator_size == 16

\* f.meta is the Metadata that the metadata map of the file decodes to
from_source(f) ==
    LET metadata == f.meta
        search_tree_size == (metadata.node_count * metadata.record_size) \div 4
        rd0 == [metadata |-> metadata,
                pointer_base |-> search_tree_size + data_section_separator_size,
                ipv4_start |-> 0]
        start == find_ipv4_start(rd0, f)
    IN  IF start.kind # "Ok"
        THEN [kind |-> start.kind, reader |-> rd0, msg |-> start.msg]
        ELSE [kind |-> "Ok", reader |-> [rd0 EXCEPT !.ipv4_start = start.val],
              msg |-> ""]

\* --- the databases ------------------------------------------------------
RecordSizes == {16, 24, 28, 32}
IpVersions == {4, 6}
Builds == {"debug", "release"}

\* the records of a tree: (node, side) -> value
Slots(n) == (0..(n - 1)) \X {0, 1}

\* the size of the data section: its values, one after the other
DataSectionSize ==
    LET last == CHOOSE r \in DataRecords : \A x \in DataRecords : x.off <= r.off
    IN  last.off + last.need

\* the values of a record that are not "no data" (= n): a child node, a
\* pointer into the 16-byte separator, a pointer to each value of the data
\* section, a pointer to the first byte after the data section (where the
\* marker starts), and the largest value of the record size (a pointer past
\* the end of the file)
LargestRecord(rs) == IF rs >= 32 THEN 2147483647 ELSE 2 ^ rs - 1

SetValues(n, rs) ==
    (0..(n - 1)) \cup {n + 5} \cup {n + 16 + r.off : r \in DataRecords}
        \cup {n + 16 + DataSectionSize} \cup {LargestRecord(rs)}

Trees(n, rs) ==
    UNION { { [s \in Slots(n) |-> IF s \in S THEN g[s] ELSE n] :
                g \in [S -> SetValues(n, rs)] } :
            S \in {T \in SUBSET Slots(n) : Cardinality(T) <= MaxSetRecords} }

\* the bytes of a value, big-endian, count of them
RECURSIVE be_bytes(_, _)
be_bytes(v, count) ==
    IF count = 0 THEN <<>> ELSE Append(be_bytes(v \div 256, count - 1), v % 256)

\* one node of the search tree as the format lays it out
NodeBytes(rs, left, right) ==
    CASE rs = 24 -> be_bytes(left, 3) \o be_bytes(right, 3)
      [] rs = 28 -> be_bytes(left % (2 ^ 24), 3)
                    \o <<(left \div (2 ^ 24)) * 16 + (right \div (2 ^ 24))>>
                    \o be_bytes(right % (2 ^ 24), 3)
      [] rs = 32 -> be_bytes(left, 4) \o be_bytes(right, 4)
      [] OTHER -> [k \in 1..(rs \div 4) |-> 0]

RECURSIVE TreeBytes(_, _, _, _)
TreeBytes(rs, n, t, k) ==
    IF k = n THEN <<>>
    ELSE NodeBytes(rs, t[<<k, 0>>], t[<<k, 1>>]) \o TreeBytes(rs, n, t, k + 1)

\* search tree, separator, data section, marker, metadata map (64 bytes)
Database(rs, v, n, t) ==
    LET tree == TreeBytes(rs, n, t, 0) IN
    [ meta |-> [record_size |-> rs, ip_version |-> v, node_count |-> n],
      tree |-> tree,
      data_start |-> Len(tree) + 16,
      total_size |-> Len(tree) + 16 + DataSectionSize + MARKER_LEN + 64 ]

\* a file that lost everything between its first node and the marker: the
\* metadata still gives the node_count of the whole tree, so pointer_base
\* lies past the end of the file. Each record of the node is "no data" or
\* points to the first value of the data section.
Truncated(rs, v, left, right) ==
    LET tree == NodeBytes(rs, left, right) IN
    [ meta |-> [record_size |-> rs, ip_version |-> v, node_count |-> ClaimedNodes],
      tree |-> tree,
      data_start |-> Len(tree),
      total_size |-> Len(tree) + MARKER_LEN + 64 ]

TruncatedDatabases ==
    { Truncated(c[1], c[2], c[3], c[4]) :
        c \in {24, 28, 32} \X IpVersions
               \X {ClaimedNodes, ClaimedNodes + 16} \X {ClaimedNodes, ClaimedNodes + 16} }

Databases ==
    UNION { { Database(c[1], c[2], c[3], t) : t \in Trees(c[3], c[1]) } :
            c \in RecordSizes \X IpVersions \X (0..MaxNodes) }
        \cup TruncatedDatabases

\* the databases a Reader opens
Opened == {f \in Databases : from_source(f).kind = "Ok"}

\* --- the addresses ------------------------------------------------------
\* ip_to_bytes: 4 octets of an IPv4 address, 16 of an IPv6 address
Octets(len, lead, fill, last) ==
    [k \in 1..len |-> IF k = 1 THEN lead ELSE IF k = len THEN last ELSE fill]

Addresses ==
    { Octets(c[1], c[2], c[3][1], c[3][2]) :
        c \in {4, 16} \X {0, 1, 64, 192} \X {<<0, 0>>, <<0, 1>>, <<255, 255>>} }

LookupInit ==
    /\ db \in Opened
    /\ build \in Builds
    /\ reader = from_source(db).reader
    /\ address = <<>>
    /\ walked = TErr("NotCalled", "")
    /\ result = NoResult
    /\ previous = "NotCalled"
    /\ lpc = "idle"
    \* the locator is not running and no lookups run concurrently
    /\ file = <<>>
    /\ done = {}
    /\ outcome = <<>>
    /\ requested = 0
    /\ chunk_size = 0
    /\ iter = 0
    /\ last_buf = <<>>
    /\ pc = "idle"
    /\ tasks = <<>>
    /\ sources = <<>>
    /\ overlapped = FALSE
    /\ probe = <<>>
    /\ source = <<>>
    /\ ret = <<>>
    /\ seen = <<>>

\* a caller hands an address to lookup_prefix
LookupCall(ip) ==
    /\ lpc = "idle"
    /\ address' = ip
    /\ walked' = TErr("NotCalled", "")
    /\ result' = NoResult
    /\ previous' = result.kind
    /\ lpc' = "called"
    /\ UNCHANGED <<db, build, reader>>
    /\ UNCHANGED <<lvars, cvars, xvars>>

\* lookup_prefix runs to its end
LookupReturn ==
    /\ lpc = "called"
    /\ walked' = find_address_in_tree(reader, db, address)
    /\ result' = lookup_prefix(reader, db, build, address)
    /\ reader' = reader_after(reader, result')
    /\ lpc' = "idle"
    /\ UNCHANGED <<db, build, address, previous>>
    /\ UNCHANGED <<lvars, cvars, xvars>>

LookupNext ==
    \/ \E ip \in Addresses : LookupCall(ip)
    \/ LookupReturn

SpecLookup == LookupInit /\ [][LookupNext]_vars

\* ------------------------------------------------------------------------
\* Claims about lookups
\* ------------------------------------------------------------------------
\* a lookup has returned
Returned == lpc = "idle" /\ result.kind # "NotCalled"

\* where the walk of the tree for the looked-up address stops
WalkEnd == tree_loop(reader, db, address, start_node(reader, Len(address) * 8))

NotFound == LErr("AddressNotFoundError", "Address not found in database")

\* C4: a lookup whose tree walk ends on a record equal to node_count returns
\* AddressNotFoundError("Address not found in database") and decodes nothing;
\* so does an IPv4 lookup whose start node ipv4_start is node_count.
C4_MissIsAddressNotFound ==
    (Returned /\ WalkEnd.kind = "Ok" /\ WalkEnd.node = reader.metadata.node_count)
        => result = NotFound

C4_Witness ==
    /\ Returned
    /\ result = NotFound
    /\ Len(address) = 4
    /\ reader.metadata.node_count > 0
    /\ reader.ipv4_start = reader.metadata.node_count

\* the error of the decoder for the record the walk points to, decoded from
\* the whole rest of the file (the last attempt of the lookup)
DecoderOutcome ==
    decode(db, Window(reader.pointer_base, db.total_size - reader.pointer_base),
           walked.pointer - reader.metadata.node_count - 16)

DecoderFailed ==
    /\ Returned
    /\ walked.kind = "Ok"
    /\ walked.pointer >= reader.metadata.node_count + 16
    /\ walked.pointer - reader.metadata.node_count - 16 <= db.total_size
    /\ DecoderOutcome.kind # "Ok"

\* C5: when the decoder fails on the record of the looked-up address, the
\* lookup returns the decoder's error, kind and message.
C5_DecoderErrorPreserved ==
    DecoderFailed =>
        /\ result.kind = DecoderOutcome.kind
        /\ result.msg = DecoderOutcome.msg

SixOnFour == Returned /\ Len(address) = 16 /\ reader.metadata.ip_version = 4

\* C6 as claimed: a lookup of a 16-byte address on a Reader whose ip_version
\* is 4 fails with InvalidNetworkError.
C6_InvalidNetwork == SixOnFour => result.kind = "InvalidNetworkError"

\* C6 as amended: a lookup of a 16-byte address on a Reader whose ip_version
\* is 4 is not refused; it never fails with InvalidNetworkError and returns
\* what the walk from node 0 over the leading bits of the address gives:
\* AddressNotFoundError on a miss, the record on a hit.
C6_NoVersionCheck ==
    SixOnFour =>
        /\ result.kind # "InvalidNetworkError"
        /\ walked = find_address_in_tree([reader EXCEPT !.ipv4_start = 0], db, address)
        /\ (walked.kind = "Ok" /\ walked.pointer = 0) => result = NotFound
        /\ (walked.kind = "Ok" /\ walked.pointer # 0) =>
               result = decode_record(reader, db, build, walked.pointer, walked.prefix_len)

C6_Witness == SixOnFour /\ result.kind = "Ok" /\ result.prefix > 0

C9_PrefixLenRange ==
    /\ (lpc = "idle" /\ walked.kind = "Ok") =>
           /\ Len(address) \in {4, 16}
           /\ 0 <= walked.prefix_len
           /\ walked.prefix_len <= (IF Len(address) = 4 THEN 32 ELSE 128)
    /\ (Returned /\ result.kind = "Ok") =>
           /\ 0 <= result.prefix
           /\ result.prefix <= (IF Len(address) = 4 THEN 32 ELSE 128)

C9_Witness ==
    /\ Returned
    /\ result.kind = "Ok"
    /\ Len(address) = 4
    /\ result.prefix = 32

\* the first p bits of a and b, MSB first within each octet, are the same
SamePrefix(a, b, p) ==
    /\ Len(a) = Len(b)
    /\ \A k \in 1..Len(a) :
           IF 8 * k <= p THEN a[k] = b[k]
           ELSE IF 8 * (k - 1) >= p THEN TRUE
           ELSE a[k] \div (2 ^ (8 * k - p)) = b[k] \div (2 ^ (8 * k - p))

\* C10: when find_address_in_tree returns (pointer, p) for an address, it
\* returns the same (pointer, p) for every address of the same length that
\* has the same first p bits.
C10_PrefixDecides ==
    (lpc = "idle" /\ walked.kind = "Ok") =>
        \A b \in Addresses :
            SamePrefix(address, b, walked.prefix_len) =>
                find_address_in_tree(reader, db, b) = walked

C10_Witness ==
    /\ lpc = "idle"
    /\ walked.kind = "Ok"
    /\ walked.pointer # 0
    /\ walked.prefix_len >= 2
    /\ \E b \in Addresses : b # address /\ SamePrefix(address, b, walked.prefix_len)

\* the nodes the loop of lines 195-203 stands on, one after the other:
\* path[1] is the start node, path[j + 1] the record read for bit j - 1.
\* The path ends where the loop breaks, where read_node fails, or after
\* bit_count reads.
RECURSIVE walk_path(_, _, _, _, _, _)
walk_path(rd, f, ip_address, path, lo, hi) ==
    IF lo >= hi \/ Len(path) # lo + 1 THEN path
    ELSE IF hi = lo + 1
    THEN LET node == path[Len(path)] IN
         IF node >= rd.metadata.node_count THEN path
         ELSE LET r == read_node(rd, f, node, bit_of(ip_address, lo)) IN
              IF r.kind # "Ok" THEN path ELSE Append(path, r.val)
    ELSE LET mid == (lo + hi) \div 2
             half == walk_path(rd, f, ip_address, path, lo, mid)
         IN  walk_path(rd, f, ip_address, half, mid, hi)

PathOf(rd, f, ip_address) ==
    walk_path(rd, f, ip_address, <<start_node(rd, Len(ip_address) * 8)>>,
              0, Len(ip_address) * 8)

\* C14: the walk reads at most bit_count records, each from a node below
\* node_count and for the next bit of the address; it stops at the first i
\* with node >= node_count and reports prefix_len = i (bit_count when every
\* bit was consumed). The final node is classified: equal to node_count
\* gives (0, prefix_len), above it gives (node, prefix_len), below it (all
\* bits consumed) gives InvalidDatabaseError("invalid node in search tree").
C14_WalkClassifies ==
    ( /\ lpc = "idle"
      /\ walked.kind # "NotCalled"
      /\ reader.metadata.record_size \in {24, 28, 32} )
        => LET path == PathOf(reader, db, address)
               reads == Len(path) - 1
               last == path[Len(path)]
               bit_count == Len(address) * 8
               node_count == reader.metadata.node_count
           IN  /\ reads <= bit_count
               /\ \A j \in 1..reads :
                      /\ path[j] < node_count
                      /\ path[j + 1] =
                             read_node(reader, db, path[j], bit_of(address, j - 1)).val
               /\ reads < bit_count => last >= node_count
               /\ walked =
                      IF last = node_count THEN TOk(0, reads)
                      ELSE IF last > node_count THEN TOk(last, reads)
                      ELSE TErr("InvalidDatabaseError", "invalid node in search tree")

C14_Witness ==
    /\ lpc = "idle"
    /\ Len(address) = 4
    /\ walked = TErr("InvalidDatabaseError", "invalid node in search tree")

\* the size of the data section of the file: what lies between the
\* separator and the marker (the 64-byte metadata map ends the file)
data_section_size(f) == f.total_size - 64 - MARKER_LEN - f.data_start

CorruptTree ==
    LErr("InvalidDatabaseError", "the MaxMind DB file's search tree is corrupt")

\* C12: a lookup whose walk ends on a pointer ptr >= node_count + 16 with
\* data_offset = ptr - node_count - 16 >= data_section_size fails with
\* InvalidDatabaseError (search tree is corrupt) and decodes nothing.
C12_OffsetOutsideDataSection ==
    ( /\ Returned
      /\ walked.kind = "Ok"
      /\ walked.pointer >= reader.metadata.node_count + 16
      /\ walked.pointer - reader.metadata.node_count - 16 >= data_section_size(db) )
        => result = CorruptTree

\* C16: a lookup whose walk ends on a record v with node_count < v <
\* node_count + 16, a pointer into the separator, fails with
\* InvalidDatabaseError; v - node_count - 16 does not overflow.
C16_SeparatorPointerIsAnError ==
    ( /\ Returned
      /\ walked.kind = "Ok"
      /\ walked.pointer > reader.metadata.node_count
      /\ walked.pointer < reader.metadata.node_count + 16 )
        => result.kind = "InvalidDatabaseError"

\* ::a.b.c.d, the 16 octets of the IPv6 address that holds a.b.c.d in its
\* last 32 bits
Mapped(ip_address) == [k \in 1..16 |-> IF k <= 12 THEN 0 ELSE ip_address[k - 12]]

\* the nodes that the walk of :: from node 0 stands on before and after its
\* first 96 bits: up to 96 left records, fewer when the walk leaves the tree
LeftPath == walk_path(reader, db, [k \in 1..16 |-> 0], <<0>>, 0, 96)

\* all 96 left records were read, each from a node of the tree
LeftStepsInside == Len(LeftPath) = 97

\* C17: with ip_version 6 ipv4_start is the node reached from node 0 over
\* up to 96 left records, the walk stopping once node >= node_count; with
\* another ip_version it is 0. When all 96 left steps are taken inside the
\* tree, the walk for a.b.c.d gives the pointer of the walk for ::a.b.c.d
\* and a prefix_len that is 96 less, and so do the two lookups.
C17_Ipv4Subtree ==
    /\ reader.ipv4_start =
           IF reader.metadata.ip_version # 6 THEN 0 ELSE LeftPath[Len(LeftPath)]
    /\ ( /\ Returned
         /\ Len(address) = 4
         /\ reader.metadata.ip_version = 6
         /\ LeftStepsInside )
           => LET w6 == find_address_in_tree(reader, db, Mapped(address))
                  r6 == lookup_prefix(reader, db, build, Mapped(address))
              IN  /\ walked.kind = "Ok" =>
                         w6 = TOk(walked.pointer, walked.prefix_len + 96)
                  /\ walked.kind # "Ok" => w6 = walked
                  /\ result.kind = "Ok" => r6 = LOk(result.val, result.prefix + 96)
                  /\ result.kind # "Ok" => r6 = result

C17_Witness ==
    /\ Returned
    /\ Len(address) = 4
    /\ reader.metadata.ip_version = 6
    /\ reader.metadata.node_count > 0
    /\ LeftStepsInside
    /\ result.kind = "Ok"
    /\ result.prefix > 0

\* C19: pointer_base is node_count * record_size / 4 + 16, and a lookup
\* that returns a record returns the one that starts at the file offset
\* pointer_base + (ptr - node_count - 16), ptr being the pointer of the walk
\* for the address, together with the prefix_len of that walk.
C19_DecodedAtPointerBase ==
    /\ reader.pointer_base =
           (reader.metadata.node_count * reader.metadata.record_size) \div 4 + 16
    /\ (Returned /\ result.kind = "Ok") =>
           /\ walked.kind = "Ok"
           /\ result.val = reader.pointer_base
                               + (walked.pointer - reader.metadata.node_count - 16)
           /\ result.prefix = walked.prefix_len

C19_Witness ==
    /\ Returned
    /\ result.kind = "Ok"
    /\ Len(address) = 16
    /\ reader.metadata.node_count > 0
    /\ result.val > reader.pointer_base

\* C11: a Reader is returned only for metadata with record_size in
\* {24, 28, 32} and ip_version in {4, 6}; from_source fails with
\* InvalidDatabaseError for every other database.
C11_InvalidMetadataRefused ==
    /\ reader.metadata.record_size \in {24, 28, 32}
    /\ reader.metadata.ip_version \in {4, 6}

\* ------------------------------------------------------------------------
\* Part 3: lookups that run concurrently on one Reader
\* ------------------------------------------------------------------------
\* Each lookup is a task that gives way at its awaits: Source::new, every
\* move_cursor, every read, position. A step is one await and the code that
\* follows it up to the next await. tasks[l].pc names the await the task is
\* at.
Lookups == 1..NumLookups

\* (one Source, held by the Reader and used by all lookups)
source_of_shared(l) == 1

\* lookup_prefix opens a Source of its own (line 167): the Source of lookup l
source_of(l) == l

TaskIdle ==
    [pc |-> "idle", ip |-> <<>>, node |-> 0, i |-> 0, prefix_len |-> 0,
     middle |-> 0, rec |-> 0, start_position |-> 0, max_size |-> 0,
     size_mult |-> 0, result |-> NoResult]

\* the lookup returns res; its locals and its Source are dropped
Finish(t, res) == [TaskIdle EXCEPT !.pc = "done", !.ip = t.ip, !.result = res]

\* lines 204-210 and 170-177: the end of the walk, up to move_cursor
after_walk(t, node, prefix_len) ==
    LET node_count == reader.metadata.node_count IN
    IF node_count = node THEN Finish(t, NotFound)
    ELSE IF node > node_count
    THEN LET rec == resolve_data_pointer(reader, build, node, db.total_size) IN
         IF rec.kind # "Ok" THEN Finish(t, LErr(rec.kind, rec.msg))
         ELSE [t EXCEPT !.pc = "seek_base", !.node = node, !.rec = rec.val,
                        !.prefix_len = prefix_len]
    ELSE Finish(t, LErr("InvalidDatabaseError", "invalid node in search tree"))

\* lines 195-202 and 239-266: the head of the loop, up to the first await
\* of read_node
walk_head(t) ==
    LET bit_count == Len(t.ip) * 8 IN
    IF t.i = bit_count THEN after_walk(t, t.node, t.prefix_len)
    ELSE IF t.node >= reader.metadata.node_count
    THEN after_walk(t, t.node, prefix_len_at(t.i, bit_count))
    ELSE CASE reader.metadata.record_size \in {24, 32} -> [t EXCEPT !.pc = "seek_node"]
           [] reader.metadata.record_size = 28 -> [t EXCEPT !.pc = "seek_mid"]
           [] OTHER -> Finish(t, LErr("InvalidDatabaseError", "unknown record size"))

\* the offset and the size of the read of a record (lines 243, 253, 257)
record_offset(t) ==
    LET rs == reader.metadata.record_size
        base_offset == (t.node * rs) \div 4
        index == bit_of(t.ip, t.i)
    IN  IF rs = 24 THEN base_offset + index * 3 ELSE base_offset + index * 4

record_bytes == IF reader.metadata.record_size = 32 THEN 4 ELSE 3

Seek(l, pos) == sources' = [sources EXCEPT ![source_of(l)] = pos]

\* Source::read: read_exact at the cursor, which moves past the bytes read
ReadAtCursor(l, size) == read(db, sources[source_of(l)], size)

Advance(l, w) ==
    sources' = [sources EXCEPT ![source_of(l)] =
                    IF w.kind = "Ok" THEN @ + w.len ELSE @]

Running(l) == tasks[l].pc \notin {"idle", "done"}

Overlap(l) ==
    overlapped' = (overlapped \/ \E o \in Lookups : o # l /\ Running(o))

ConcFrame ==
    /\ UNCHANGED <<db, build, reader, address, walked, result, previous, lpc>>
    /\ UNCHANGED lvars
    /\ UNCHANGED xvars

\* line 167: Source::new opens the file; lines 168, 189-193
Begin(l, ip) ==
    /\ tasks[l].pc = "idle"
    /\ Seek(l, 0)
    /\ tasks' = [tasks EXCEPT ![l] =
          walk_head([TaskIdle EXCEPT !.pc = "walk", !.ip = ip,
                        !.node = start_node(reader, Len(ip) * 8),
                        !.prefix_len = Len(ip) * 8])]
    /\ Overlap(l)
    /\ ConcFrame

\* line 247: read_one, its move_cursor
SeekMiddle(l) ==
    /\ tasks[l].pc = "seek_mid"
    /\ Seek(l, (tasks[l].node * reader.metadata.record_size) \div 4 + 3)
    /\ tasks' = [tasks EXCEPT ![l].pc = "read_mid"]
    /\ Overlap(l)
    /\ ConcFrame

\* lines 247-252: read_one, its read, and the nibble of the side
ReadMiddle(l) ==
    /\ tasks[l].pc = "read_mid"
    /\ LET t == tasks[l]
           w == ReadAtCursor(l, 1)
       IN  /\ Advance(l, w)
           /\ tasks' = [tasks EXCEPT ![l] =
                 IF w.kind # "Ok" THEN Finish(t, LErr(w.kind, w.msg))
                 ELSE [t EXCEPT !.pc = "seek_node",
                          !.middle = middle_of(WindowBytes(db, w)[1],
                                               bit_of(t.ip, t.i))]]
    /\ Overlap(l)
    /\ ConcFrame

\* lines 244, 254, 258: read_at, its move_cursor
SeekNode(l) ==
    /\ tasks[l].pc = "seek_node"
    /\ Seek(l, record_offset(tasks[l]))
    /\ tasks' = [tasks EXCEPT ![l].pc = "read_node"]
    /\ Overlap(l)
    /\ ConcFrame

\* lines 244, 254, 258: read_at, its read; to_usize; the next iteration
ReadNode(l) ==
    /\ tasks[l].pc = "read_node"
    /\ LET t == tasks[l]
           w == ReadAtCursor(l, record_bytes)
       IN  /\ Advance(l, w)
           /\ tasks' = [tasks EXCEPT ![l] =
                 IF w.kind # "Ok" THEN Finish(t, LErr(w.kind, w.msg))
                 ELSE walk_head([t EXCEPT
                          !.node = to_usize(t.middle, WindowBytes(db, w)),
                          !.middle = 0,
                          !.i = t.i + 1])]
    /\ Overlap(l)
    /\ ConcFrame

\* line 177: move_cursor(pointer_base)
SeekBase(l) ==
    /\ tasks[l].pc = "seek_base"
    /\ Seek(l, reader.pointer_base)
    /\ tasks' = [tasks EXCEPT ![l].pc = "position"]
    /\ Overlap(l)
    /\ ConcFrame

\* lines 364-365: position() and max_size
Position(l) ==
    /\ tasks[l].pc = "position"
    /\ LET t == tasks[l]
           start_position == sources[source_of(l)]
       IN  tasks' = [tasks EXCEPT ![l] =
              IF start_position > db.total_size /\ build = "debug"
              THEN Finish(t, LErr("Panic", "attempt to subtract with overflow"))
              ELSE [t EXCEPT !.pc = "seek_start",
                       !.start_position = start_position,
                       !.max_size = IF start_position > db.total_size
                                    THEN -1
                                    ELSE db.total_size - start_position,
                       !.size_mult = 1]]
    /\ UNCHANGED sources
    /\ Overlap(l)
    /\ ConcFrame

\* line 368: move_cursor(start_position)
SeekStart(l) ==
    /\ tasks[l].pc = "seek_start"
    /\ Seek(l, tasks[l].start_position)
    /\ tasks' = [tasks EXCEPT ![l].pc = "read_buf"]
    /\ Overlap(l)
    /\ ConcFrame

\* lines 369-376 and 184-185: the read of an attempt and the closure on it.
\* max_size = -1 stands for the wrapped max_size of a release build, which
\* no request exceeds.
ReadBuffer(l) ==
    /\ tasks[l].pc = "read_buf"
    /\ LET t == tasks[l]
           last == t.max_size >= 0 /\ t.rec + t.size_mult * BASE > t.max_size
           w == ReadAtCursor(l, IF last THEN t.max_size
                                ELSE t.rec + t.size_mult * BASE)
           out == decode_closure(db, w, t.rec)
       IN  /\ Advance(l, w)
           /\ tasks' = [tasks EXCEPT ![l] =
                 IF w.kind # "Ok" THEN Finish(t, LErr(w.kind, w.msg))
                 ELSE IF out.kind = "Some" THEN Finish(t, LOk(out.val, t.prefix_len))
                 ELSE IF last THEN Finish(t, LErr("DecodingError", "Error decoding T"))
                 ELSE [t EXCEPT !.pc = "seek_start", !.size_mult = t.size_mult + 1]]
    /\ Overlap(l)
    /\ ConcFrame

\* the databases and addresses of the concurrent lookups: files that hold
\* one node at most, no record that leads back into the tree; an IPv4 and
\* an IPv6 address, one taking the left and one the right record of node 0
ConcurrentDatabases ==
    {f \in Opened :
        /\ Len(f.tree) * 4 <= f.meta.record_size
        /\ f.meta.record_size \in {24, 28}
        /\ Len(f.tree) > 0 =>
               \A side \in {0, 1} :
                   read_node(from_source(f).reader, f, 0, side).val >= f.meta.node_count}

ConcurrentAddresses == {Octets(4, 0, 0, 0), Octets(16, 192, 0, 0)}

ConcInit ==
    /\ db \in ConcurrentDatabases
    /\ build \in Builds
    /\ reader = from_source(db).reader
    /\ address = <<>>
    /\ walked = TErr("NotCalled", "")
    /\ result = NoResult
    /\ previous = "NotCalled"
    /\ lpc = "idle"
    /\ tasks = [l \in Lookups |-> TaskIdle]
    /\ sources = [h \in Lookups |-> 0]
    /\ overlapped = FALSE
    \* the locator is not running
    /\ file = <<>>
    /\ done = {}
    /\ outcome = <<>>
    /\ requested = 0
    /\ chunk_size = 0
    /\ iter = 0
    /\ last_buf = <<>>
    /\ pc = "idle"
    /\ probe = <<>>
    /\ source = <<>>
    /\ ret = <<>>
    /\ seen = <<>>

ConcNext ==
    \/ \E l \in Lookups : \E ip \in ConcurrentAddresses : Begin(l, ip)
    \/ \E l \in Lookups : SeekMiddle(l)
    \/ \E l \in Lookups : ReadMiddle(l)
    \/ \E l \in Lookups : SeekNode(l)
    \/ \E l \in Lookups : ReadNode(l)
    \/ \E l \in Lookups : SeekBase(l)
    \/ \E l \in Lookups : Position(l)
    \/ \E l \in Lookups : SeekStart(l)
    \/ \E l \in Lookups : ReadBuffer(l)

SpecConcurrent == ConcInit /\ [][ConcNext]_vars

\* C7: each of the lookups that run concurrently on a Reader returns what
\* lookup_prefix returns for its address when it runs alone.
C7_ConcurrentLookupsIndependent ==
    \A l \in Lookups :
        tasks[l].pc = "done" =>
            tasks[l].result = lookup_prefix(reader, db, build, tasks[l].ip)

C7_Witness ==
    /\ overlapped
    /\ \A l \in Lookups : tasks[l].pc = "done"
    /\ \E l \in Lookups : tasks[l].result.kind = "Ok"
    /\ \E l \in Lookups : tasks[l].result.kind = "DecodingError"

\* the size of the read that a lookup at "read_buf" is about to ask for
\* (lines 369-373)
attempt_size(t) ==
    IF t.max_size >= 0 /\ t.rec + t.size_mult * BASE > t.max_size
    THEN t.max_size
    ELSE t.rec + t.size_mult * BASE

\* C18: try_decode_increasing_buffer starts with a max_size that is
\* total_size - s, seeks back to s before every attempt, asks attempt k for
\* rec + k*1024 bytes or, once that exceeds max_size, for max_size bytes,
\* never for bytes past total_size; the attempts before the last are fewer
\* than max_size / 1024, so the loop ends.
C18_AttemptsStayInFile ==
    \A l \in Lookups :
        LET t == tasks[l] IN
        /\ t.pc \in {"seek_start", "read_buf"} =>
               /\ t.start_position <= db.total_size
               /\ t.max_size = db.total_size - t.start_position
               /\ t.size_mult >= 1
               /\ t.rec + (t.size_mult - 1) * BASE <= t.max_size
        /\ t.pc = "read_buf" =>
               /\ sources[source_of(l)] = t.start_position
               /\ t.start_position + attempt_size(t) <= db.total_size

\* ------------------------------------------------------------------------
\* Part 4: single calls of read_node
\* ------------------------------------------------------------------------
\* The trees: node_count nodes of record_size bits per record whose bytes
\* all differ from their neighbours (byte o is a multiple of o), so that a
\* record read at another offset or packed another way is another value. A
\* usize holds every record; the first byte of a 32-bit record is kept
\* below 128 so that the integers of the checker hold it too.
FillByte(rs, o, m) == IF rs = 32 THEN (o * m) % 128 ELSE (o * m) % 256

Multipliers == {1, 37, 101}

NodeFile(rs, n, m) ==
    LET tree == [o \in 1..((n * rs) \div 4) |-> FillByte(rs, o, m)] IN
    [ meta |-> [record_size |-> rs, ip_version |-> 4, node_count |-> n],
      tree |-> tree,
      data_start |-> Len(tree) + 16,
      total_size |-> Len(tree) + 16 + DataSectionSize + MARKER_LEN + 64 ]

NodeFiles ==
    { NodeFile(c[1], c[2], c[3]) :
        c \in RecordSizes \X (0..MaxTreeNodes) \X Multipliers }

ReadNodeInit ==
    /\ db \in NodeFiles
    /\ build \in Builds
    /\ reader = from_source(db).reader
    /\ probe = [kind |-> "none", node_number |-> 0, index |-> 0, out |-> NOk(0)]
    /\ address = <<>>
    /\ walked = TErr("NotCalled", "")
    /\ result = NoResult
    /\ previous = "NotCalled"
    /\ lpc = "idle"
    /\ file = <<>>
    /\ done = {}
    /\ outcome = <<>>
    /\ requested = 0
    /\ chunk_size = 0
    /\ iter = 0
    /\ last_buf = <<>>
    /\ pc = "idle"
    /\ tasks = <<>>
    /\ sources = <<>>
    /\ overlapped = FALSE
    /\ source = <<>>
    /\ ret = <<>>
    /\ seen = <<>>

\* read_node(source, node_number, index) on a node of the tree
ReadNodeCall(node_number, index) ==
    /\ node_number < reader.metadata.node_count
    /\ probe' = [kind |-> "read_node", node_number |-> node_number,
                 index |-> index,
                 out |-> read_node(reader, db, node_number, index)]
    /\ UNCHANGED <<source, ret, seen>>
    /\ UNCHANGED <<lvars, svars, cvars>>

ReadNodeNext ==
    \E node_number \in 0..(MaxTreeNodes - 1) : \E index \in {0, 1} :
        ReadNodeCall(node_number, index)

SpecReadNode == ReadNodeInit /\ [][ReadNodeNext]_vars

\* the big-endian number of the count bytes of the file from offset off on
be_u24(f, off) ==
    ByteAt(f, off) * 65536 + ByteAt(f, off + 1) * 256 + ByteAt(f, off + 2)

be_u32(f, off) == be_u24(f, off) * 256 + ByteAt(f, off + 3)

\* C15: read_node returns the record that the packing rules define: the
\* big-endian u24 at k*6 + 3*index (record_size 24), the big-endian u32 at
\* k*8 + 4*index (32), the nibble of the byte at k*7 + 3 (high for the
\* left, low for the right record) above the big-endian u24 at k*7 or
\* k*7 + 4 (28); any other record_size gives InvalidDatabaseError (unknown
\* record size). The record is below 2^record_size.
C15_RecordPacking ==
    probe.kind = "read_node" =>
        LET k == probe.node_number
            index == probe.index
            rs == reader.metadata.record_size
            middle == ByteAt(db, k * 7 + 3)
        IN  /\ rs = 24 => probe.out = NOk(be_u24(db, k * 6 + 3 * index))
            /\ rs = 32 => probe.out = NOk(be_u32(db, k * 8 + 4 * index))
            /\ (rs = 28 /\ index = 0) =>
                   probe.out = NOk((middle \div 16) * (2 ^ 24) + be_u24(db, k * 7))
            /\ (rs = 28 /\ index = 1) =>
                   probe.out = NOk((middle % 16) * (2 ^ 24) + be_u24(db, k * 7 + 4))
            /\ rs \notin {24, 28, 32} =>
                   probe.out = NErr("InvalidDatabaseError", "unknown record size")
            /\ probe.out.kind = "Ok" => probe.out.val \div (2 ^ (rs - 8)) < 256

C15_Witness ==
    /\ probe.kind = "read_node"
    /\ reader.metadata.record_size = 28
    /\ probe.node_number > 0
    /\ probe.index = 0
    /\ probe.out.kind = "Ok"
    /\ probe.out.val >= 2 ^ 24

\* ------------------------------------------------------------------------
\* Part 5: the operations of a Source, called one after the other
\* ------------------------------------------------------------------------
\* source.buffer is Source::buffer, source.pos the cursor of Source::stream.
\* What an operation gives: the Source after it and its Result (the bytes
\* of the slice it returns, no bytes with an error).
SOk(s, bytes) == [s |-> s, kind |-> "Ok", bytes |-> bytes]
SErr(s, k) == [s |-> s, kind |-> k, bytes |-> <<>>]

\* adjust_buffer: Vec::resize(size, 0) of a buffer that is shorter
adjust_buffer(buffer, size) ==
    IF size > Len(buffer)
    THEN buffer \o [k \in 1..(size - Len(buffer)) |-> 0]
    ELSE buffer

\* the bytes of f from the cursor on, none when the cursor is past the end
Available(f, pos) == IF pos >= Len(f) THEN 0 ELSE Len(f) - pos

\* buffer[..count] overwritten by the count bytes of f at pos
Fill(buffer, f, pos, count) ==
    [k \in 1..Len(buffer) |-> IF k <= count THEN f[pos + k] ELSE buffer[k]]

Source_move_cursor(s, start) == SOk([s EXCEPT !.pos = start], <<>>)

\* Source::read: read_exact fills buffer[..size] from the cursor and moves
\* the cursor past the bytes. When the file ends first it fails with
\* UnexpectedEof (an IoError); the bytes it moved before that, got of them,
\* are not specified.
Source_read(s, f, size, got) ==
    LET buffer == adjust_buffer(s.buffer, size) IN
    IF size <= Available(f, s.pos)
    THEN SOk([buffer |-> Fill(buffer, f, s.pos, size), pos |-> s.pos + size],
             SubSeq(Fill(buffer, f, s.pos, size), 1, size))
    ELSE SErr([buffer |-> Fill(buffer, f, s.pos, got), pos |-> s.pos + got],
              "IoError")

\* (a read_at that reads at the cursor, without move_cursor)
Source_read_at_no_seek(s, f, start, size, got) == Source_read(s, f, size, got)

Source_read_at(s, f, start, size, got) ==
    Source_read(Source_move_cursor(s, start).s, f, size, got)

\* read_at(start, 1)[0]
Source_read_one(s, f, start, got) ==
    LET r == Source_read_at(s, f, start, 1, got) IN
    IF r.kind = "Ok" THEN SOk(r.s, <<r.bytes[1]>>) ELSE r

\* the files: bytes that differ from each other and from the filler of the
\* buffer
SourceFiles == { [k \in 1..n |-> 16 * k] : n \in 0..MaxSourceLen }

Offsets == 0..(MaxSourceLen + 1)
Sizes == 0..(MaxSourceLen + 1)

NoCall == [call |-> "none", start |-> 0, size |-> 0, kind |-> "Ok", bytes |-> <<>>]

\* Source::new: an empty buffer, the cursor at the start of the file
SourceInit ==
    /\ file \in SourceFiles
    /\ source = [buffer |-> <<>>, pos |-> 0]
    /\ ret = NoCall
    /\ seen = NoCall
    /\ probe = <<>>
    /\ done = {}
    /\ outcome = <<>>
    /\ requested = 0
    /\ chunk_size = 0
    /\ iter = 0
    /\ last_buf = <<>>
    /\ pc = "idle"
    /\ db = <<>>
    /\ build = "release"
    /\ reader = <<>>
    /\ address = <<>>
    /\ walked = <<>>
    /\ result = <<>>
    /\ previous = ""
    /\ lpc = "idle"
    /\ tasks = <<>>
    /\ sources = <<>>
    /\ overlapped = FALSE

\* the call named call returned r
Returns(call, start, size, r) ==
    /\ source' = r.s
    /\ ret' = [call |-> call, start |-> start, size |-> size,
               kind |-> r.kind, bytes |-> r.bytes]
    /\ seen' = IF ret.call = "read_at" THEN ret ELSE seen
    /\ UNCHANGED <<file, done, outcome, requested, chunk_size, iter, last_buf, pc>>
    /\ UNCHANGED <<svars, cvars, probe>>

\* the bytes read_exact may have moved when it fails
Moved(pos, size) == 0..(IF size <= Available(file, pos) THEN 0 ELSE Available(file, pos))

MoveCursor(start) == Returns("move_cursor", start, 0, Source_move_cursor(source, start))

Read(size) ==
    \E got \in Moved(source.pos, size) :
        Returns("read", source.pos, size, Source_read(source, file, size, got))

ReadAt(start, size) ==
    \E got \in Moved(start, size) :
        Returns("read_at", start, size, Source_read_at(source, file, start, size, got))

ReadOne(start) ==
    \E got \in Moved(start, 1) :
        Returns("read_one", start, 1, Source_read_one(source, file, start, got))

SourceNext ==
    \/ \E start \in Offsets : MoveCursor(start)
    \/ \E size \in Sizes : Read(size)
    \/ \E start \in Offsets : \E size \in Sizes : ReadAt(start, size)
    \/ \E start \in Offsets : ReadOne(start)

SpecSource == SourceInit /\ [][SourceNext]_vars

\* the bytes file[start, start + size) can all be read: they lie inside the
\* file, or there are none of them
Readable(f, start, size) == size = 0 \/ start + size <= Len(f)

\* C20: whatever calls came before, read_at(offset, len) returns the bytes
\* file[offset, offset + len) when offset + len <= total_size, fails with
\* IoError when the range is not fully readable, and returns what the same
\* call returned before.
C20_ReadAtPositionIndependent ==
    ret.call = "read_at" =>
        /\ Readable(file, ret.start, ret.size) =>
               /\ ret.kind = "Ok"
               /\ ret.bytes = SubSeq(file, ret.start + 1, ret.start + ret.size)
        /\ ~Readable(file, ret.start, ret.size) =>
               /\ ret.kind = "IoError"
               /\ ret.bytes = <<>>
        /\ (seen.call = "read_at" /\ seen.start = ret.start /\ seen.size = ret.size)
               => (seen.kind = ret.kind /\ seen.bytes = ret.bytes)

C20_Witness ==
    /\ ret.call = "read_at"
    /\ seen.call = "read_at"
    /\ seen.start = ret.start
    /\ seen.size = ret.size
    /\ ret.kind = "Ok"
    /\ ret.start > 0
    /\ ret.size > 0
    /\ Len(source.buffer) > ret.size

====
